---- MODULE Spec2Model ----
(***************************************************************************)
(* A model of toshi/database.py: the SafePool acquisition loop, the        *)
(* HandlerDatabasePoolContext transaction scope and the create_tables      *)
(* migration runner.                                                       *)
(*                                                                         *)
(* Three specifications share the module:                                  *)
(*   Spec      one task using one HandlerDatabasePoolContext               *)
(*   SpecPool  SafePool._acquire over the driver's pool                    *)
(*   SpecMig   create_tables against one database                          *)
(* Each specification leaves the variables of the other two untouched.     *)
(***************************************************************************)
EXTENDS Integers, Sequences, FiniteSets, TLC

\* ---------------------------------------------------------------- bounds
\* connections of the pool a scope borrows from
NConns == 1
\* distinct callback objects a caller may register
NCallbacks == 2

\* connections of the pool SafePool wraps
NPoolConns == 2
\* tasks acquiring from it concurrently
NTasks == 3
\* highest migration script number that may exist
MaxScript == 3
\* pool objects the process may create in all
NRegPools == 3
\* tasks that call prepare_database() or enter a scope
NRegTasks == 2
\* longest list of assignments or of conditions given to update
MaxPairs == 2

Conns == 1..NConns
Callbacks == 1..NCallbacks
\* identities of transaction objects: the scope refers to one at a time, and
\* an object it has dropped is garbage whose identity is handed out again
TxIds == {1, 2}

\* Python's None for the connection and transaction fields
None == 0

QueryOps == {"execute", "executemany", "fetch", "fetchval", "fetchrow", "update"}

VARIABLES
    \* ---- HandlerDatabasePoolContext.__slots__
    connection,     \* self.connection: None or the borrowed connection
    transaction,    \* self.transaction: None or a driver transaction object
    autocommit,     \* self.autocommit
    done,           \* self.done
    callbacks,      \* self.callbacks: list of pending commit callbacks
    \* ---- the driver
    borrowed,       \* connections currently acquired from self.pool
    txState,        \* state of the live transaction objects (asyncpg TransactionState)
    \* ---- position of the task that uses the scope
    pc,             \* "out", "body", "commit_cb", "in_cb", "commit_finally", "exit_finally"
    ctx,            \* where the commit in progress was called from: "out", "body", "exit"
    cnt,            \* create_new_transaction of the commit in progress
    pending,        \* commit's local list `callbacks`, not yet invoked
    exc,            \* exception in flight in the commit in progress
    \* ---- history (observations only; no action reads them in a guard)
    phase,          \* lifecycle of the scope as its user sees it
    last,           \* outcome of the last enter, query, commit or exit, if it was the last step
    snap,           \* callbacks pending when the commit in progress began
    fired,          \* callbacks invoked by the commit in progress, in order
    begun,          \* live transaction objects whose start() succeeded
    unresolved,     \* this entry dropped a begun transaction neither committed nor rolled back
    entryConn,      \* connection acquired by the __aenter__ of this entry
    relLog,         \* pool.release calls since that __aenter__
    exitRec,        \* what the __aexit__ in progress saw and did
    owed,           \* callbacks registered before the last commit call began (or since
                    \* it ended) and not invoked since
    deferred,       \* callbacks registered while a callback of this commit ran
    \* ---- SafePool over the driver's pool
    pclosed,        \* con.is_closed() of every connection of the pool
    pholder,        \* the task that has a connection out of the driver's pool, or 0
    tpc,            \* every task: "idle", "acquiring", "releasing", "holding"
    tcon,           \* every task: the connection it has in hand, or None
    tret,           \* every task: is_closed() of its connection when _acquire returned it
    tdisc,          \* history, every task: the closed connections its acquisition has taken
    \* ---- the database and the script directory seen by create_tables
    dbTable,        \* database_version: "absent", "empty" (no row yet) or "row"
    dbVersion,      \* version_number of its row
    dbBootstrapped, \* sql/create_tables.sql has been executed
    dbApplied,      \* the migration scripts that have been executed
    scripts,        \* the n for which sql/migrate_{n:08}.sql exists
    bootstrapFile,  \* sql/create_tables.sql exists
    bsVersion,      \* the version create_tables.sql writes to database_version (0: none)
    \* ---- create_tables runs
    rpc,            \* every runner: "absent", "start", "create", "insert", "bootstrap",
                    \* "verify", "loop", "update", "done"
    rver,           \* its local `version`
    rexc,           \* its local `exception`, or the error the run ended with
    rv0,            \* history: the version the run read from the table, as a set
    rran,           \* history: the migration scripts the run executed, in order
    rwarn,          \* history: the run logged the version-mismatch warning
    \* ---- one wait_for_migration call
    wpc,            \* "absent", "start", "poll", "sleep", "returned", "skipped", "raised"
    wexp,           \* its local `version`: the highest script number it found
    wsaw,           \* history: what its last fetchrow found
    \* ---- the process-wide registry and the pools of the process
    gpool,          \* _global_database_pool: None or a pool
    gpoolSt,        \* every pool object: "none" (not created), "open", "closed"
    gexited,        \* sys.exit(1) has been called
    gmade,          \* history: the pools made by _prepare_global_pool
    \* ---- tasks calling prepare_database() or entering a scope
    gpc,            \* "idle", "creating", "migrating", "acquiring", "closing",
                    \* "reacquire", "begin", "entered"
    gctx,           \* what the task is in: "none", "prepare", "scope", "recover"
    gtpool,         \* the local `pool` of prepare_database / the scope's self.pool
    gconn,          \* the pool whose connection the scope holds, or None
    gtrace,         \* history: the steps of the recovery made by this entry
    gorig,          \* history: the error pool.acquire raised in this entry
    graised,        \* history: the error the call raised to its caller
    gdef,           \* history: self.pool was the default pool when acquire failed
    \* ---- one call of update(tablename, update_args, query_args)
    upc,            \* "absent", "call", "done"
    uargs,          \* update_args: its Python type and its key/value pairs, in order
    qargs,          \* query_args, likewise
    uout            \* what the call raised, what it sent to the connection, what it returned

scopeVars == <<connection, transaction, autocommit, done, callbacks>>
driverVars == <<borrowed, txState>>
taskVars == <<pc, ctx, cnt, pending, exc>>
entryVars == <<begun, unresolved, entryConn, relLog, exitRec>>
commitHist == <<snap, fired, deferred>>
histVars == <<phase, last, commitHist, entryVars, owed>>
allScopeVars == <<scopeVars, driverVars, taskVars, histVars>>
poolVars == <<pclosed, pholder, tpc, tcon, tret, tdisc>>
dbVars == <<dbTable, dbVersion, dbBootstrapped, dbApplied>>
fileVars == <<scripts, bootstrapFile, bsVersion>>
runVars == <<rpc, rver, rexc, rv0, rran, rwarn>>
migVars == <<dbVars, fileVars, runVars>>
waitVars == <<wpc, wexp, wsaw>>
regVars == <<gpool, gpoolSt, gexited, gmade, gpc, gctx, gtpool, gconn, gtrace, gorig, graised, gdef>>
updVars == <<upc, uargs, qargs, uout>>
nonScopeVars == <<poolVars, migVars, waitVars, regVars, updVars>>
nonPoolVars == <<allScopeVars, migVars, waitVars, regVars, updVars>>
nonMigVars == <<allScopeVars, poolVars, regVars, updVars>>
nonRegVars == <<allScopeVars, poolVars, migVars, waitVars, updVars>>
nonUpdVars == <<allScopeVars, poolVars, migVars, waitVars, regVars>>
vars == <<allScopeVars, poolVars, migVars, waitVars, regVars, updVars>>

Range(s) == {s[i] : i \in 1..Len(s)}

IsPrefix(s, t) == Len(s) <= Len(t) /\ \A i \in 1..Len(s) : s[i] = t[i]

NoDup(s) == \A i, j \in 1..Len(s) : s[i] = s[j] => i = j

\* ---------------------------------------------------------------- driver
\* asyncpg Transaction: NEW -> STARTED -> COMMITTED | ROLLEDBACK, FAILED when
\* the statement raised.  "unused" marks an identity no live object has.
TxStates == {"unused", "started", "committed", "rolledback", "failed"}

Resolved == {"committed", "rolledback"}

\* connection.transaction(): a new transaction object
NewTx == IF transaction = 1 THEN 2 ELSE 1

\* the scope drops its reference to transaction object t
DropTx(ts, t) == IF t = None THEN ts ELSE [ts EXCEPT ![t] = "unused"]

\* await transaction.start(): BEGIN succeeds or raises
TxStart(ts, t, ok) == [ts EXCEPT ![t] = IF ok THEN "started" ELSE "failed"]

\* await transaction.commit(): refuses a transaction that is not STARTED
TxCommitRaises(ts, t, ok) == ts[t] # "started" \/ ~ok

TxCommit(ts, t, ok) ==
    IF ts[t] # "started" THEN ts
    ELSE [ts EXCEPT ![t] = IF ok THEN "committed" ELSE "failed"]

\* await transaction.rollback(): refuses a transaction that is not STARTED
TxRollback(ts, t, ok) ==
    IF ts[t] # "started" THEN ts
    ELSE [ts EXCEPT ![t] = IF ok THEN "rolledback" ELSE "failed"]

\* a begun transaction is being dropped without having been resolved
DropsUnresolved(t) == unresolved \/ (t \in begun /\ txState[t] \notin Resolved)

\* ---------------------------------------------------------------- SafePool
PoolConns == 1..NPoolConns
Tasks == 1..NTasks

\* the pool part at rest, for the specifications that do not use it
PoolUnused ==
    /\ pclosed = [c \in PoolConns |-> FALSE]
    /\ pholder = [c \in PoolConns |-> 0]
    /\ tpc = [t \in Tasks |-> "idle"]
    /\ tcon = [t \in Tasks |-> None]
    /\ tret = [t \in Tasks |-> FALSE]
    /\ tdisc = [t \in Tasks |-> {}]

\* the pool may hold connections that the server has already closed
InitPool ==
    /\ pclosed \in [PoolConns -> BOOLEAN]
    /\ pholder = [c \in PoolConns |-> 0]
    /\ tpc = [t \in Tasks |-> "idle"]
    /\ tcon = [t \in Tasks |-> None]
    /\ tret = [t \in Tasks |-> FALSE]
    /\ tdisc = [t \in Tasks |-> {}]

\* a connection handed out freely, without looking at it
ReturnsAny(c) == TRUE

\* `if con.is_closed(): ... else: return con`
Returns(c) == ~pclosed[c]

\* a release that leaves the connection in the caller's hands
ReleasedNever(ph, c) == ph

\* `await self.release(con)`: the pool has the connection back
Released(ph, c) == [ph EXCEPT ![c] = 0]

\* the caller asks for a connection: pool.acquire() enters _acquire
PAcquire(t) ==
    /\ tpc[t] = "idle"
    /\ tpc' = [tpc EXCEPT ![t] = "acquiring"]
    /\ tdisc' = [tdisc EXCEPT ![t] = {}]
    /\ UNCHANGED <<pclosed, pholder, tcon, tret>>
    /\ UNCHANGED nonPoolVars

\* one turn of the loop: `con = await super()._acquire(timeout)` hands over a
\* connection nobody holds, then the is_closed() test
PSuperAcquire(t, c) ==
    /\ tpc[t] = "acquiring"
    /\ pholder[c] = 0
    /\ pholder' = [pholder EXCEPT ![c] = t]
    /\ tcon' = [tcon EXCEPT ![t] = c]
    /\ IF Returns(c)
       THEN /\ tpc' = [tpc EXCEPT ![t] = "holding"]
            /\ tret' = [tret EXCEPT ![t] = pclosed[c]]
            /\ UNCHANGED tdisc
       ELSE /\ tpc' = [tpc EXCEPT ![t] = "releasing"]
            /\ tdisc' = [tdisc EXCEPT ![t] = @ \cup {c}]
            /\ UNCHANGED tret
    /\ UNCHANGED pclosed
    /\ UNCHANGED nonPoolVars

\* `await self.release(con)` of a closed connection, then the next turn
PReleaseClosed(t) ==
    /\ tpc[t] = "releasing"
    /\ pholder' = Released(pholder, tcon[t])
    /\ tcon' = [tcon EXCEPT ![t] = None]
    /\ tpc' = [tpc EXCEPT ![t] = "acquiring"]
    /\ UNCHANGED <<pclosed, tret, tdisc>>
    /\ UNCHANGED nonPoolVars

\* super()._acquire(timeout) raises its timeout while every connection is out
PTimeout(t) ==
    /\ tpc[t] = "acquiring"
    /\ \A c \in PoolConns : pholder[c] # 0
    /\ tpc' = [tpc EXCEPT ![t] = "idle"]
    /\ tdisc' = [tdisc EXCEPT ![t] = {}]
    /\ UNCHANGED <<pclosed, pholder, tcon, tret>>
    /\ UNCHANGED nonPoolVars

\* the caller gives its connection back: pool.release(con)
PRelease(t) ==
    /\ tpc[t] = "holding"
    /\ pholder' = Released(pholder, tcon[t])
    /\ tcon' = [tcon EXCEPT ![t] = None]
    /\ tpc' = [tpc EXCEPT ![t] = "idle"]
    /\ tret' = [tret EXCEPT ![t] = FALSE]
    /\ tdisc' = [tdisc EXCEPT ![t] = {}]
    /\ UNCHANGED pclosed
    /\ UNCHANGED nonPoolVars

\* the server drops a connection, idle in the pool or in a task's hands
PDisconnect(c) ==
    /\ ~pclosed[c]
    /\ pclosed' = [pclosed EXCEPT ![c] = TRUE]
    /\ UNCHANGED <<pholder, tpc, tcon, tret, tdisc>>
    /\ UNCHANGED nonPoolVars

\* the driver's pool replaces a closed connection it holds by a new one
PReconnect(c) ==
    /\ pclosed[c]
    /\ pholder[c] = 0
    /\ pclosed' = [pclosed EXCEPT ![c] = FALSE]
    /\ UNCHANGED <<pholder, tpc, tcon, tret, tdisc>>
    /\ UNCHANGED nonPoolVars

NextPool ==
    \/ \E t \in Tasks : PAcquire(t)
    \/ \E t \in Tasks, c \in PoolConns : PSuperAcquire(t, c)
    \/ \E t \in Tasks : PReleaseClosed(t)
    \/ \E t \in Tasks : PTimeout(t)
    \/ \E t \in Tasks : PRelease(t)
    \/ \E c \in PoolConns : PDisconnect(c)
    \/ \E c \in PoolConns : PReconnect(c)

\* ---------------------------------------------------------------- create_tables
\* the processes that may run create_tables
Runners == {1, 2}

Versions == 0..MaxScript

\* the migration part at rest, for the specifications that do not use it
MigUnused ==
    /\ dbTable = "absent"
    /\ dbVersion = 0
    /\ dbBootstrapped = FALSE
    /\ dbApplied = {}
    /\ scripts = {}
    /\ bootstrapFile = FALSE
    /\ bsVersion = 0
    /\ rpc = [r \in Runners |-> "absent"]
    /\ rver = [r \in Runners |-> 0]
    /\ rexc = [r \in Runners |-> "none"]
    /\ rv0 = [r \in Runners |-> {}]
    /\ rran = [r \in Runners |-> <<>>]
    /\ rwarn = [r \in Runners |-> FALSE]

\* a fresh database, or one bootstrapped earlier at some version; any set of
\* migration scripts on disk
InitDb ==
    /\ \/ dbTable = "absent" /\ dbVersion = 0 /\ dbBootstrapped = FALSE
       \/ dbTable = "row" /\ dbVersion \in Versions /\ dbBootstrapped = TRUE
    /\ dbApplied = {}
    /\ scripts \in SUBSET (1..MaxScript)
    /\ bootstrapFile \in BOOLEAN
    /\ bsVersion \in Versions

InitRun(present) ==
    /\ rpc = [r \in Runners |-> IF r \in present THEN "start" ELSE "absent"]
    /\ rver = [r \in Runners |-> 0]
    /\ rexc = [r \in Runners |-> "none"]
    /\ rv0 = [r \in Runners |-> {}]
    /\ rran = [r \in Runners |-> <<>>]
    /\ rwarn = [r \in Runners |-> FALSE]

\* os.path.exists("sql/migrate_{:08}.sql".format(n))
ScriptExists(n) == n \in scripts

\* `version = 0; while True: version += 1; if not exists: version -= 1; break`,
\* started from v: the last number of the run of scripts that follows v
RECURSIVE Probe(_)
Probe(v) == IF ScriptExists(v + 1) THEN Probe(v + 1) ELSE v

\* a loop that leaves `version` one too high when it stops
LoopBackMissing(v) == v

\* `version -= 1` before the loop's `break`
LoopBack(v) == v - 1

\* a loop that raises as soon as a script fails, before the UPDATE
FailedScriptRaises == "done"

\* `except Exception as e: version -= 1; exception = e; break`: control goes
\* on to the UPDATE statement after the loop
FailedScriptNext == "update"

\* a verification that also runs when no migration script was found
NeedsVerifyAlways(v) == TRUE

\* `if version > 0:` before the verifying fetchrow
NeedsVerify(v) == v > 0

\* the run ends: it returns, or raises e
RunEnds(r, e) ==
    /\ rpc' = [rpc EXCEPT ![r] = "done"]
    /\ rexc' = [rexc EXCEPT ![r] = e]

\* the bootstrap-file test and the first fetchrow
RRead(r) ==
    /\ rpc[r] = "start"
    /\ IF ~bootstrapFile
       THEN /\ RunEnds(r, "none")
            /\ UNCHANGED <<rver, rv0>>
       ELSE IF dbTable = "absent"
       THEN /\ rpc' = [rpc EXCEPT ![r] = "create"]
            /\ UNCHANGED <<rver, rv0, rexc>>
       ELSE IF dbTable = "empty"
       THEN /\ RunEnds(r, "TypeError")
            /\ UNCHANGED <<rver, rv0>>
       ELSE /\ rver' = [rver EXCEPT ![r] = dbVersion]
            /\ rv0' = [rv0 EXCEPT ![r] = {dbVersion}]
            /\ rpc' = [rpc EXCEPT ![r] = "loop"]
            /\ UNCHANGED rexc
    /\ UNCHANGED <<dbVars, fileVars, rran, rwarn>>
    /\ UNCHANGED <<nonMigVars, waitVars>>

\* CREATE TABLE database_version
RCreate(r) ==
    /\ rpc[r] = "create"
    /\ IF dbTable = "absent"
       THEN /\ dbTable' = "empty"
            /\ rpc' = [rpc EXCEPT ![r] = "insert"]
            /\ UNCHANGED rexc
       ELSE /\ RunEnds(r, "DuplicateTable")
            /\ UNCHANGED dbTable
    /\ UNCHANGED <<dbVersion, dbBootstrapped, dbApplied, fileVars, rver, rv0, rran, rwarn>>
    /\ UNCHANGED <<nonMigVars, waitVars>>

\* INSERT INTO database_version (version_number) VALUES (0)
RInsert(r) ==
    /\ rpc[r] = "insert"
    /\ dbTable' = "row"
    /\ dbVersion' = IF dbTable = "row" THEN dbVersion ELSE 0
    /\ rpc' = [rpc EXCEPT ![r] = "bootstrap"]
    /\ UNCHANGED <<dbBootstrapped, dbApplied, fileVars, rver, rexc, rv0, rran, rwarn>>
    /\ UNCHANGED <<nonMigVars, waitVars>>

\* execute create_tables.sql, then look for the highest migration script
RBootstrap(r, ok) ==
    /\ rpc[r] = "bootstrap"
    /\ IF ok
       THEN /\ dbBootstrapped' = TRUE
            /\ dbVersion' = IF bsVersion > 0 /\ dbTable = "row" THEN bsVersion ELSE dbVersion
            /\ rver' = [rver EXCEPT ![r] = Probe(0)]
            /\ rpc' = [rpc EXCEPT ![r] = IF NeedsVerify(Probe(0)) THEN "verify" ELSE "done"]
            /\ UNCHANGED rexc
       ELSE /\ RunEnds(r, "ScriptError")
            /\ UNCHANGED <<dbBootstrapped, dbVersion, rver>>
    /\ UNCHANGED <<dbTable, dbApplied, fileVars, rv0, rran, rwarn>>
    /\ UNCHANGED <<nonMigVars, waitVars>>

\* the fetchrow that compares the table with the highest migration script
RVerify(r) ==
    /\ rpc[r] = "verify"
    /\ IF dbTable = "row"
       THEN /\ rwarn' = [rwarn EXCEPT ![r] = dbVersion # rver[r]]
            /\ RunEnds(r, "none")
       ELSE /\ RunEnds(r, IF dbTable = "empty" THEN "TypeError" ELSE "UndefinedTable")
            /\ UNCHANGED rwarn
    /\ UNCHANGED <<dbVars, fileVars, rver, rv0, rran>>
    /\ UNCHANGED <<nonMigVars, waitVars>>

\* one turn of the migration loop
RLoop(r, ok) ==
    /\ rpc[r] = "loop"
    /\ IF ScriptExists(rver[r] + 1)
       THEN /\ rran' = [rran EXCEPT ![r] = Append(@, rver[r] + 1)]
            /\ IF ok
               THEN /\ dbApplied' = dbApplied \cup {rver[r] + 1}
                    /\ rver' = [rver EXCEPT ![r] = @ + 1]
                    /\ UNCHANGED <<rpc, rexc>>
               ELSE /\ rver' = [rver EXCEPT ![r] = LoopBack(@ + 1)]
                    /\ rexc' = [rexc EXCEPT ![r] = "ScriptError"]
                    /\ rpc' = [rpc EXCEPT ![r] = FailedScriptNext]
                    /\ UNCHANGED dbApplied
       ELSE /\ rver' = [rver EXCEPT ![r] = LoopBack(@ + 1)]
            /\ rpc' = [rpc EXCEPT ![r] = "update"]
            /\ UNCHANGED <<rran, rexc, dbApplied>>
    /\ UNCHANGED <<dbTable, dbVersion, dbBootstrapped, fileVars, rv0, rwarn>>
    /\ UNCHANGED <<nonMigVars, waitVars>>

\* UPDATE database_version SET version_number = $1, then `raise exception`
RUpdate(r) ==
    /\ rpc[r] = "update"
    /\ dbVersion' = IF dbTable = "row" THEN rver[r] ELSE dbVersion
    /\ rpc' = [rpc EXCEPT ![r] = "done"]
    /\ UNCHANGED <<dbTable, dbBootstrapped, dbApplied, fileVars, rver, rexc, rv0, rran, rwarn>>
    /\ UNCHANGED <<nonMigVars, waitVars>>

\* the process is started again: a new create_tables run
RRestart(r) ==
    /\ rpc[r] = "done"
    /\ rpc' = [rpc EXCEPT ![r] = "start"]
    /\ rver' = [rver EXCEPT ![r] = 0]
    /\ rexc' = [rexc EXCEPT ![r] = "none"]
    /\ rv0' = [rv0 EXCEPT ![r] = {}]
    /\ rran' = [rran EXCEPT ![r] = <<>>]
    /\ rwarn' = [rwarn EXCEPT ![r] = FALSE]
    /\ UNCHANGED <<dbVars, fileVars>>
    /\ UNCHANGED <<nonMigVars, waitVars>>

NextMig ==
    \/ \E r \in Runners : RRead(r)
    \/ \E r \in Runners : RCreate(r)
    \/ \E r \in Runners : RInsert(r)
    \/ \E r \in Runners, ok \in BOOLEAN : RBootstrap(r, ok)
    \/ \E r \in Runners : RVerify(r)
    \/ \E r \in Runners, ok \in BOOLEAN : RLoop(r, ok)
    \/ \E r \in Runners : RUpdate(r)
    \/ \E r \in Runners : RRestart(r)

\* ---------------------------------------------------------------- wait_for_migration
NoPoll == [table |-> "none", version |-> 0]

\* the waiter at rest, for the specifications that do not use it
WaitUnused ==
    /\ wpc = "absent"
    /\ wexp = 0
    /\ wsaw = NoPoll

InitWaiter ==
    /\ wpc = "start"
    /\ wexp = 0
    /\ wsaw = NoPoll

\* `if version == row['version_number']: break`
PollMatches(exp, v) == exp = v

\* the bootstrap-file test and the probe for the highest script; no await
\* before the first fetchrow
WStart ==
    /\ wpc = "start"
    /\ IF ~bootstrapFile
       THEN /\ wpc' = "skipped"
            /\ UNCHANGED wexp
       ELSE /\ wpc' = "poll"
            /\ wexp' = Probe(0)
    /\ UNCHANGED wsaw
    /\ UNCHANGED <<nonMigVars, migVars>>

\* one fetchrow of the polling loop: UndefinedTableError is swallowed, a table
\* without a row makes `row['version_number']` raise TypeError
WPoll ==
    /\ wpc = "poll"
    /\ wsaw' = [table |-> dbTable, version |-> IF dbTable = "row" THEN dbVersion ELSE 0]
    /\ wpc' = IF dbTable = "absent" THEN "sleep"
              ELSE IF dbTable = "empty" THEN "raised"
              ELSE IF PollMatches(wexp, dbVersion) THEN "returned" ELSE "sleep"
    /\ UNCHANGED wexp
    /\ UNCHANGED <<nonMigVars, migVars>>

\* await asyncio.sleep(poll_frequency) is over
WSleep ==
    /\ wpc = "sleep"
    /\ wpc' = "poll"
    /\ UNCHANGED <<wexp, wsaw>>
    /\ UNCHANGED <<nonMigVars, migVars>>

\* the waiting process is started again: a new wait_for_migration call
WRestart ==
    /\ wpc \in {"returned", "skipped", "raised"}
    /\ wpc' = "start"
    /\ wexp' = 0
    /\ wsaw' = NoPoll
    /\ UNCHANGED <<nonMigVars, migVars>>

\* a runner and a waiter against the same database and script directory
NextWait ==
    \/ NextMig
    \/ WStart
    \/ WPoll
    \/ WSleep
    \/ WRestart

\* ---------------------------------------------------------------- registry
RegPools == 1..NRegPools
RegTasks == 1..NRegTasks

AcquireErrors == {"ConnectionDoesNotExistError", "TimeoutError", "InterfaceError"}

InitTasks ==
    /\ gexited = FALSE
    /\ gpc = [t \in RegTasks |-> "idle"]
    /\ gctx = [t \in RegTasks |-> "none"]
    /\ gtpool = [t \in RegTasks |-> None]
    /\ gconn = [t \in RegTasks |-> None]
    /\ gtrace = [t \in RegTasks |-> <<>>]
    /\ gorig = [t \in RegTasks |-> "none"]
    /\ graised = [t \in RegTasks |-> "none"]
    /\ gdef = [t \in RegTasks |-> FALSE]

\* the registry part at rest, for the specifications that do not use it
RegUnused ==
    /\ gpool = None
    /\ gpoolSt = [p \in RegPools |-> "none"]
    /\ gmade = {}
    /\ InitTasks

\* one pool exists: the default pool set by an earlier prepare_database(), or
\* a pool made from an explicit config while no default pool is set
InitReg ==
    /\ gpool \in {None, 1}
    /\ gpoolSt = [p \in RegPools |-> IF p = 1 THEN "open" ELSE "none"]
    /\ gmade = IF gpool = None THEN {} ELSE {gpool}
    /\ InitTasks

\* the pool object the next create_pool call makes
FreshPool == CHOOSE p \in RegPools : gpoolSt[p] = "none" /\ \A q \in RegPools : gpoolSt[q] = "none" => p <= q

\* a new call begins: the history of the task's previous call is dropped
NewCall(t, c) ==
    /\ gctx' = [gctx EXCEPT ![t] = c]
    /\ gtrace' = [gtrace EXCEPT ![t] = <<>>]
    /\ gorig' = [gorig EXCEPT ![t] = "none"]
    /\ graised' = [graised EXCEPT ![t] = "none"]
    /\ gdef' = [gdef EXCEPT ![t] = FALSE]

\* the call raises e to its caller
Raises(t, e) ==
    /\ gpc' = [gpc EXCEPT ![t] = "idle"]
    /\ graised' = [graised EXCEPT ![t] = e]

\* _prepare_global_pool up to its await: `if _global_database_pool is None`
\* then create_pool(...), else the registered pool
PrepareGlobalPool(t) ==
    IF gpool = None
    THEN /\ \E p \in RegPools : gpoolSt[p] = "none"
         /\ gpoolSt' = [gpoolSt EXCEPT ![FreshPool] = "open"]
         /\ gmade' = gmade \cup {FreshPool}
         /\ gtpool' = [gtpool EXCEPT ![t] = FreshPool]
         /\ gpc' = [gpc EXCEPT ![t] = "creating"]
    ELSE /\ gtpool' = [gtpool EXCEPT ![t] = gpool]
         /\ gpc' = [gpc EXCEPT ![t] = "migrating"]
         /\ UNCHANGED <<gpoolSt, gmade>>

\* `self.pool is get_database_pool()`, whose assert needs a registered pool
IsDefaultPool(p) == p = gpool

\* prepare_database() without config, called by a task
GPrepare(t) ==
    /\ ~gexited
    /\ gpc[t] = "idle"
    /\ NewCall(t, "prepare")
    /\ PrepareGlobalPool(t)
    /\ UNCHANGED <<gpool, gexited, gconn>>
    /\ UNCHANGED nonRegVars

\* `_global_database_pool = await create_pool(...)` completes or raises
GCreated(t, ok) ==
    /\ ~gexited
    /\ gpc[t] = "creating"
    /\ IF ok
       THEN /\ gpool' = gtpool[t]
            /\ gpc' = [gpc EXCEPT ![t] = "migrating"]
            /\ UNCHANGED <<gpoolSt, gexited, graised>>
       ELSE /\ gpoolSt' = [gpoolSt EXCEPT ![gtpool[t]] = "closed"]
            /\ UNCHANGED gpool
            /\ IF gctx[t] = "recover"
               THEN gexited' = TRUE /\ UNCHANGED <<gpc, graised>>
               ELSE Raises(t, "CreateError") /\ UNCHANGED gexited
    /\ UNCHANGED <<gmade, gctx, gtpool, gconn, gtrace, gorig, gdef>>
    /\ UNCHANGED nonRegVars

\* `async with pool.acquire() as con:` create_tables or wait_for_migration,
\* then `return pool`
GMigrated(t, ok) ==
    /\ ~gexited
    /\ gpc[t] = "migrating"
    /\ gpoolSt[gtpool[t]] = "closed" => ~ok
    /\ IF gctx[t] = "recover"
       THEN IF ok
            THEN /\ gtrace' = [gtrace EXCEPT ![t] = Append(@, "prepare")]
                 /\ gpc' = [gpc EXCEPT ![t] = "reacquire"]
                 /\ UNCHANGED <<gexited, graised>>
            ELSE /\ gexited' = TRUE
                 /\ UNCHANGED <<gpc, gtrace, graised>>
       ELSE /\ IF ok
               THEN gpc' = [gpc EXCEPT ![t] = "idle"] /\ UNCHANGED graised
               ELSE Raises(t, "MigrationError")
            /\ UNCHANGED <<gexited, gtrace>>
    /\ UNCHANGED <<gpool, gpoolSt, gmade, gctx, gtpool, gconn, gorig, gdef>>
    /\ UNCHANGED nonRegVars

\* __aenter__ of a scope whose self.pool is p, up to `await self.pool.acquire`
GEnter(t, p) ==
    /\ ~gexited
    /\ gpc[t] = "idle"
    /\ gconn[t] = None
    /\ gpoolSt[p] # "none"
    /\ NewCall(t, "scope")
    /\ gtpool' = [gtpool EXCEPT ![t] = p]
    /\ gpc' = [gpc EXCEPT ![t] = "acquiring"]
    /\ UNCHANGED <<gpool, gpoolSt, gmade, gexited, gconn>>
    /\ UNCHANGED nonRegVars

\* the first pool.acquire returns or raises; on ConnectionDoesNotExistError
\* the handler runs up to `await self.pool.close()`
GAcquired(t, res) ==
    /\ ~gexited
    /\ gpc[t] = "acquiring"
    /\ gpoolSt[gtpool[t]] = "closed" => res = "InterfaceError"
    /\ IF res = "ok"
       THEN /\ gconn' = [gconn EXCEPT ![t] = gtpool[t]]
            /\ gpc' = [gpc EXCEPT ![t] = "begin"]
            /\ UNCHANGED <<gpool, gctx, gtrace, gorig, graised, gdef>>
       ELSE /\ gorig' = [gorig EXCEPT ![t] = res]
            /\ gdef' = [gdef EXCEPT ![t] = gpool # None /\ gtpool[t] = gpool]
            /\ UNCHANGED gconn
            /\ IF res # "ConnectionDoesNotExistError"
               THEN /\ Raises(t, res)
                    /\ UNCHANGED <<gpool, gctx, gtrace>>
               ELSE IF gpool = None
               THEN /\ Raises(t, "AssertionError")
                    /\ UNCHANGED <<gpool, gctx, gtrace>>
               ELSE IF IsDefaultPool(gtpool[t])
               THEN /\ gpool' = None
                    /\ gctx' = [gctx EXCEPT ![t] = "recover"]
                    /\ gtrace' = [gtrace EXCEPT ![t] = <<"clear">>]
                    /\ gpc' = [gpc EXCEPT ![t] = "closing"]
                    /\ UNCHANGED graised
               ELSE /\ Raises(t, res)
                    /\ UNCHANGED <<gpool, gctx, gtrace>>
    /\ UNCHANGED <<gpoolSt, gmade, gexited, gtpool>>
    /\ UNCHANGED nonRegVars

\* `await self.pool.close()` returns or raises; then prepare_database
\* (handle_migration=False) runs up to its first await
GClosed(t, ok) ==
    /\ ~gexited
    /\ gpc[t] = "closing"
    /\ IF ok
       THEN /\ gtrace' = [gtrace EXCEPT ![t] = Append(@, "close")]
            /\ IF gpool = None
               THEN /\ \E p \in RegPools : gpoolSt[p] = "none"
                    /\ gpoolSt' = [gpoolSt EXCEPT ![gtpool[t]] = "closed", ![FreshPool] = "open"]
                    /\ gmade' = gmade \cup {FreshPool}
                    /\ gtpool' = [gtpool EXCEPT ![t] = FreshPool]
                    /\ gpc' = [gpc EXCEPT ![t] = "creating"]
               ELSE /\ gpoolSt' = [gpoolSt EXCEPT ![gtpool[t]] = "closed"]
                    /\ gtpool' = [gtpool EXCEPT ![t] = gpool]
                    /\ gpc' = [gpc EXCEPT ![t] = "migrating"]
                    /\ UNCHANGED gmade
            /\ UNCHANGED gexited
       ELSE /\ gexited' = TRUE
            /\ UNCHANGED <<gpoolSt, gmade, gtpool, gpc, gtrace>>
    /\ UNCHANGED <<gpool, gctx, gconn, gorig, graised, gdef>>
    /\ UNCHANGED nonRegVars

\* the second pool.acquire, inside the try block: any error ends the process
GReacquired(t, ok) ==
    /\ ~gexited
    /\ gpc[t] = "reacquire"
    /\ gpoolSt[gtpool[t]] = "closed" => ~ok
    /\ IF ok
       THEN /\ gconn' = [gconn EXCEPT ![t] = gtpool[t]]
            /\ gtrace' = [gtrace EXCEPT ![t] = Append(@, "acquire")]
            /\ gpc' = [gpc EXCEPT ![t] = "begin"]
            /\ UNCHANGED gexited
       ELSE /\ gexited' = TRUE
            /\ UNCHANGED <<gconn, gtrace, gpc>>
    /\ UNCHANGED <<gpool, gpoolSt, gmade, gctx, gtpool, gorig, graised, gdef>>
    /\ UNCHANGED nonRegVars

\* `await self.transaction.start()` returns or raises; `return self`
GBegun(t, ok) ==
    /\ ~gexited
    /\ gpc[t] = "begin"
    /\ IF ok
       THEN gpc' = [gpc EXCEPT ![t] = "entered"] /\ UNCHANGED graised
       ELSE Raises(t, "StartFailed")
    /\ UNCHANGED <<gpool, gpoolSt, gmade, gexited, gctx, gtpool, gconn, gtrace, gorig, gdef>>
    /\ UNCHANGED nonRegVars

\* the scope is left: __aexit__ releases the connection
GLeave(t) ==
    /\ ~gexited
    /\ gpc[t] = "entered"
    /\ gpc' = [gpc EXCEPT ![t] = "idle"]
    /\ gconn' = [gconn EXCEPT ![t] = None]
    /\ UNCHANGED <<gpool, gpoolSt, gmade, gexited, gctx, gtpool, gtrace, gorig, graised, gdef>>
    /\ UNCHANGED nonRegVars

NextReg ==
    \/ \E t \in RegTasks : GPrepare(t)
    \/ \E t \in RegTasks, ok \in BOOLEAN : GCreated(t, ok)
    \/ \E t \in RegTasks, ok \in BOOLEAN : GMigrated(t, ok)
    \/ \E t \in RegTasks, p \in RegPools : GEnter(t, p)
    \/ \E t \in RegTasks, res \in {"ok"} \cup AcquireErrors : GAcquired(t, res)
    \/ \E t \in RegTasks, ok \in BOOLEAN : GClosed(t, ok)
    \/ \E t \in RegTasks, ok \in BOOLEAN : GReacquired(t, ok)
    \/ \E t \in RegTasks, ok \in BOOLEAN : GBegun(t, ok)
    \/ \E t \in RegTasks : GLeave(t)

\* ---------------------------------------------------------------- scope
NoCall == [op |-> "none", res |-> "none"]

Call(op, res) == [op |-> op, res |-> res]

NoExit == [hadTx |-> FALSE, err |-> FALSE, op |-> "none", ok |-> FALSE, was |-> "unused", now |-> "unused"]

InitScope ==
    /\ connection = None
    /\ transaction = None
    /\ autocommit \in BOOLEAN
    /\ done = FALSE
    /\ callbacks = <<>>
    /\ borrowed = {}
    /\ txState = [t \in TxIds |-> "unused"]
    /\ pc = "out"
    /\ ctx = "out"
    /\ cnt = FALSE
    /\ pending = <<>>
    /\ exc = "none"
    /\ phase = "fresh"
    /\ last = NoCall
    /\ snap = <<>>
    /\ fired = <<>>
    /\ begun = {}
    /\ unresolved = FALSE
    /\ entryConn = None
    /\ relLog = <<>>
    /\ exitRec = NoExit
    /\ owed = {}
    /\ deferred = {}

\* a query method whose guard is missing (fetchval forwards unconditionally)
QueryGuardNoCheck(op) == op = "fetchval" \/ transaction # None

\* `if self.transaction:` of execute, executemany, fetch, fetchval, fetchrow and
\* `if not self.transaction:` of update
QueryGuard(op) == transaction # None

\* `if self.transaction:` of commit
CommitGuard == transaction # None

\* an exit that rolls back only when the body raised
ExitRollsBackOnErrorOnly(err) == err

\* __aexit__: `if extype is not None or self.autocommit is False`
ExitRollsBack(err) == err \/ autocommit = FALSE

\* __aexit__: `elif self.autocommit`
ExitCommits(err) == autocommit = TRUE

\* commit: `callbacks = self.callbacks[:]`
CallbackCopy == callbacks

\* commit: `self.callbacks.clear()`
CallbacksCleared == <<>>

\* on_commit: `if callback not in self.callbacks: self.callbacks.append(callback)`
OnCommitList(cb) == IF cb \in Range(callbacks) THEN callbacks ELSE Append(callbacks, cb)

\* a finally block that forgets `self.transaction = None`
CommitFinallyTxKept == IF cnt THEN NewTx ELSE transaction

\* commit's finally block: the value it leaves in self.transaction
CommitFinallyTx == IF cnt THEN NewTx ELSE None

\* a finally block that marks the scope done on every commit
CommitFinallyDoneAlways == TRUE

\* commit's finally block: the value it leaves in self.done
CommitFinallyDone == IF cnt THEN done ELSE TRUE

\* an exit without try/finally: no release when the rollback or commit raised
ExitReleasesUnlessRaised ==
    IF exitRec.hadTx /\ exitRec.now \notin Resolved THEN <<>> ELSE <<connection>>

\* __aexit__'s finally block: its pool.release calls, `await self.pool.release(con)`
ExitReleases == <<connection>>

\* commit, up to the driver commit: copy the callback list, clear it, commit
CommitBegin(new, ok, from) ==
    /\ snap' = callbacks
    /\ fired' = <<>>
    /\ deferred' = {}
    /\ callbacks' = CallbacksCleared
    /\ txState' = TxCommit(txState, transaction, ok)
    /\ cnt' = new
    /\ ctx' = from
    /\ phase' = IF from = "out" THEN phase ELSE "committing"
    /\ IF TxCommitRaises(txState, transaction, ok)
       THEN /\ exc' = "driver"
            /\ pending' = <<>>
            /\ pc' = "commit_finally"
       ELSE /\ exc' = "none"
            /\ pending' = CallbackCopy
            /\ pc' = "commit_cb"

\* __aenter__ once the connection is acquired: begin the transaction
EnterAcquired(c, startOk) ==
    /\ connection' = c
    /\ borrowed' = borrowed \cup {c}
    /\ transaction' = NewTx
    /\ txState' = TxStart(txState, NewTx, startOk)
    /\ unresolved' = FALSE
    /\ relLog' = <<>>
    /\ exitRec' = NoExit
    /\ IF startOk
       THEN /\ pc' = "body"
            /\ phase' = "entered"
            /\ begun' = {NewTx}
            /\ entryConn' = c
            /\ last' = Call("enter", "ok")
       ELSE /\ pc' = pc
            /\ phase' = "broken"
            /\ begun' = {}
            /\ entryConn' = None
            /\ last' = Call("enter", "StartFailed")

\* async with scope: __aenter__ on an explicitly given pool; an acquisition
\* error (a timeout, or any error on a pool that is not the default pool)
\* propagates
AEnter(c, acqOk, startOk) ==
    /\ UNCHANGED nonScopeVars
    /\ pc \in {"out", "body"}
    /\ IF connection # None
       THEN /\ last' = Call("enter", "ConnectionAlreadyInProgress")
            /\ UNCHANGED <<scopeVars, driverVars, taskVars>>
            /\ UNCHANGED <<phase, commitHist, entryVars, owed>>
       ELSE IF ~acqOk
       THEN /\ last' = Call("enter", "AcquireFailed")
            /\ UNCHANGED <<scopeVars, driverVars, taskVars>>
            /\ UNCHANGED <<phase, commitHist, entryVars, owed>>
       ELSE /\ c \notin borrowed
            /\ EnterAcquired(c, startOk)
            /\ UNCHANGED <<autocommit, done, callbacks, ctx, cnt, pending, exc>>
            /\ UNCHANGED <<commitHist, owed>>

\* __aexit__, the try block
AExit(err, ok) ==
    /\ UNCHANGED nonScopeVars
    /\ pc = "body"
    /\ IF transaction # None /\ ExitRollsBack(err)
       THEN /\ txState' = TxRollback(txState, transaction, ok)
            /\ exitRec' = [hadTx |-> TRUE, err |-> err, op |-> "rollback", ok |-> ok,
                           was |-> txState[transaction], now |-> txState'[transaction]]
            /\ pc' = "exit_finally"
            /\ phase' = "exiting"
            /\ UNCHANGED <<callbacks, ctx, cnt, pending, exc, commitHist>>
       ELSE IF transaction # None /\ ExitCommits(err)
       THEN /\ CommitBegin(FALSE, ok, "exit")
            /\ exitRec' = [hadTx |-> TRUE, err |-> err, op |-> "commit", ok |-> ok,
                           was |-> txState[transaction], now |-> txState'[transaction]]
       ELSE /\ pc' = "exit_finally"
            /\ phase' = "exiting"
            /\ exitRec' = [hadTx |-> transaction # None, err |-> err, op |-> "none", ok |-> FALSE,
                           was |-> "unused", now |-> "unused"]
            /\ UNCHANGED <<txState, callbacks, ctx, cnt, pending, exc, commitHist>>
    /\ UNCHANGED <<connection, transaction, autocommit, done, borrowed>>
    /\ UNCHANGED <<last, begun, unresolved, entryConn, relLog, owed>>

\* __aexit__, the finally block; `last` keeps what this exit did:
\* its record of the try block, the connection the entry had acquired, the
\* pool.release calls made, and whether a begun transaction was left unresolved
AExitFinally ==
    /\ UNCHANGED nonScopeVars
    /\ pc = "exit_finally"
    /\ transaction' = None
    /\ connection' = None
    /\ done' = TRUE
    /\ txState' = DropTx(txState, transaction)
    /\ borrowed' = borrowed \ Range(ExitReleases)
    /\ pc' = "out"
    /\ phase' = "exited"
    /\ last' = [op |-> "exit", res |-> "released", rec |-> exitRec, conn |-> entryConn,
                released |-> relLog \o ExitReleases,
                unresolved |-> DropsUnresolved(transaction)]
    /\ begun' = {}
    /\ unresolved' = FALSE
    /\ entryConn' = None
    /\ relLog' = <<>>
    /\ exitRec' = NoExit
    /\ UNCHANGED <<autocommit, callbacks, ctx, cnt, pending, exc>>
    /\ UNCHANGED <<commitHist, owed>>

\* commit(create_new_transaction=new), called by the user of the scope
ACommit(new, ok) ==
    /\ UNCHANGED nonScopeVars
    /\ pc \in {"out", "body"}
    /\ IF CommitGuard
       THEN /\ CommitBegin(new, ok, pc)
            /\ UNCHANGED <<connection, transaction, autocommit, done, borrowed>>
            /\ UNCHANGED <<last, entryVars, owed>>
       ELSE /\ last' = Call("commit", "NoTransactionToCommit")
            /\ UNCHANGED <<scopeVars, driverVars, taskVars>>
            /\ UNCHANGED <<phase, commitHist, entryVars, owed>>

\* commit: `f = callback()` for the next callback of the local list
ACallback ==
    /\ UNCHANGED nonScopeVars
    /\ pc = "commit_cb"
    /\ pending # <<>>
    /\ fired' = Append(fired, Head(pending))
    /\ owed' = owed \ {Head(pending)}
    /\ pending' = Tail(pending)
    /\ pc' = "in_cb"
    /\ last' = NoCall
    /\ UNCHANGED <<scopeVars, driverVars, ctx, cnt, exc>>
    /\ UNCHANGED <<phase, snap, deferred, entryVars>>

\* the callback (awaited if it is a coroutine) returns
ACallbackReturn ==
    /\ UNCHANGED nonScopeVars
    /\ pc = "in_cb"
    /\ pc' = "commit_cb"
    /\ last' = NoCall
    /\ UNCHANGED <<scopeVars, driverVars, ctx, cnt, pending, exc>>
    /\ UNCHANGED <<phase, commitHist, entryVars, owed>>

\* the callback raises: control leaves the for loop for the finally block
ACallbackRaise ==
    /\ UNCHANGED nonScopeVars
    /\ pc = "in_cb"
    /\ pc' = "commit_finally"
    /\ exc' = "callback"
    /\ last' = NoCall
    /\ UNCHANGED <<scopeVars, driverVars, ctx, cnt, pending>>
    /\ UNCHANGED <<phase, commitHist, entryVars, owed>>

\* commit, the finally block, and the return to the caller
ACommitFinally(startOk) ==
    /\ UNCHANGED nonScopeVars
    /\ \/ pc = "commit_finally"
       \/ pc = "commit_cb" /\ pending = <<>>
    /\ IF cnt
       THEN /\ txState' = TxStart(DropTx(txState, transaction), NewTx, startOk)
            /\ begun' = IF startOk THEN {NewTx} ELSE {}
            /\ last' = Call("commit", IF startOk /\ exc = "none" THEN "ok" ELSE "raised")
       ELSE /\ txState' = DropTx(txState, transaction)
            /\ begun' = {}
            /\ last' = Call("commit", IF exc = "none" THEN "ok" ELSE "raised")
    /\ transaction' = CommitFinallyTx
    /\ done' = CommitFinallyDone
    /\ owed' = owed \cup deferred
    /\ unresolved' = DropsUnresolved(transaction)
    /\ pending' = <<>>
    /\ exc' = "none"
    /\ cnt' = FALSE
    /\ ctx' = "out"
    /\ snap' = <<>>
    /\ fired' = <<>>
    /\ deferred' = {}
    /\ pc' = IF ctx = "exit" THEN "exit_finally" ELSE ctx
    /\ phase' = IF ctx = "exit" THEN "exiting"
                ELSE IF ctx = "out" THEN phase
                ELSE IF cnt THEN "entered" ELSE "committed"
    /\ UNCHANGED <<connection, autocommit, callbacks, borrowed>>
    /\ UNCHANGED <<entryConn, relLog, exitRec>>

\* on_commit(callback)
AOnCommit(cb) ==
    /\ UNCHANGED nonScopeVars
    /\ pc \in {"out", "body", "in_cb"}
    /\ callbacks' = OnCommitList(cb)
    /\ owed' = IF pc = "in_cb" THEN owed ELSE owed \cup {cb}
    /\ deferred' = IF pc = "in_cb" THEN deferred \cup {cb} ELSE deferred
    /\ last' = NoCall
    /\ UNCHANGED <<connection, transaction, autocommit, done, driverVars, taskVars>>
    /\ UNCHANGED <<phase, snap, fired, entryVars>>

\* execute, executemany, fetch, fetchval, fetchrow, update; `valid` says whether
\* update's arguments pass its type checks
AQuery(op, valid) ==
    /\ UNCHANGED nonScopeVars
    /\ pc \in {"out", "body", "in_cb"}
    /\ last' = Call("query", IF ~QueryGuard(op) THEN "NoTransactionInProgress"
                             ELSE IF op = "update" /\ ~valid THEN "BadArguments"
                             ELSE "forwarded")
    /\ UNCHANGED <<scopeVars, driverVars, taskVars>>
    /\ UNCHANGED <<phase, commitHist, entryVars, owed>>

Next ==
    \/ \E c \in Conns, acqOk, startOk \in BOOLEAN : AEnter(c, acqOk, startOk)
    \/ \E err, ok \in BOOLEAN : AExit(err, ok)
    \/ AExitFinally
    \/ \E new, ok \in BOOLEAN : ACommit(new, ok)
    \/ ACallback
    \/ ACallbackReturn
    \/ ACallbackRaise
    \/ \E startOk \in BOOLEAN : ACommitFinally(startOk)
    \/ \E cb \in Callbacks : AOnCommit(cb)
    \/ \E op \in QueryOps, valid \in BOOLEAN : AQuery(op, valid)

\* ---------------------------------------------------------------- update
Columns == {"a", "b"}
Values == {"x", "y"}

\* the Python types update tells apart; a dict becomes an ItemsView by .items()
ArgTypes == {"dict", "list", "tuple", "None", "other"}
PairTypes == {"dict", "list", "tuple"}

\* lists of at most MaxPairs (column, value) pairs
PairLists == UNION {[1..n -> Columns \X Values] : n \in 0..MaxPairs}

\* the values an argument may have: a dict has no column twice, and a value
\* that is no collection of pairs has none
ArgValues ==
    {[type |-> ty, pairs |-> ps] : ty \in ArgTypes, ps \in PairLists} \ 
    ({[type |-> ty, pairs |-> ps] : ty \in ArgTypes \ PairTypes, ps \in PairLists \ {<<>>}}
     \cup {[type |-> "dict", pairs |-> ps] : ps \in {q \in PairLists : \E i, j \in 1..Len(q) : i # j /\ q[i][1] = q[j][1]}})

NoResult == [raised |-> "none", sent |-> FALSE, query |-> <<>>, args |-> <<>>, ret |-> <<>>]

\* status strings connection.execute may return, as lists of characters
Responses == {<<"U", "P", "D", "A", "T", "E", " ", "1">>, <<"E", "R", "R", "O", "R", ":", " ", "x">>, <<>>}

ErrorPrefix == <<"E", "R", "R", "O", "R", ":">>

\* the update part at rest, for the specifications that do not use it
UpdUnused ==
    /\ upc = "absent"
    /\ uargs = [type |-> "None", pairs |-> <<>>]
    /\ qargs = [type |-> "None", pairs |-> <<>>]
    /\ uout = NoResult

InitUpd ==
    /\ upc = "call"
    /\ uargs \in ArgValues
    /\ qargs \in ArgValues
    /\ uout = NoResult

\* "{} = ${}".format(k, qnum)
Stmt(k, qnum) == <<k, " = $", qnum>>

\* `for k, v in args: stmts.append(...); qnum += 1`: the list of statements
RECURSIVE Stmts(_, _)
Stmts(pairs, qnum) ==
    IF pairs = <<>> THEN <<>>
    ELSE <<Stmt(pairs[1][1], qnum)>> \o Stmts(Tail(pairs), qnum + 1)

\* `for k, v in args: arglist.append(v)`
RECURSIVE ArgList(_)
ArgList(pairs) == IF pairs = <<>> THEN <<>> ELSE <<pairs[1][2]>> \o ArgList(Tail(pairs))

\* sep.join(stmts)
RECURSIVE Join(_, _)
Join(sep, stmts) ==
    IF stmts = <<>> THEN <<>>
    ELSE IF Len(stmts) = 1 THEN stmts[1]
    ELSE stmts[1] \o <<sep>> \o Join(sep, Tail(stmts))

\* a WHERE clause whose placeholders start again at 1
WhereQnumFromOne(qnum) == 1

\* qnum when the conditions are rendered: where the assignments left it
WhereQnum(qnum) == qnum

\* isinstance(args, dict) or isinstance(args, (list, tuple, ItemsView))
IsPairs(arg) == arg.type \in PairTypes

\* the statement update builds
UpdateQuery(tablename) ==
    <<"UPDATE ", tablename, " SET ">>
    \o Join(", ", Stmts(uargs.pairs, 1))
    \o (IF IsPairs(qargs)
        THEN <<" WHERE ">> \o Join(" AND ", Stmts(qargs.pairs, WhereQnum(1 + Len(uargs.pairs))))
        ELSE <<>>)

\* the arguments update binds
UpdateArgs == ArgList(uargs.pairs) \o (IF IsPairs(qargs) THEN ArgList(qargs.pairs) ELSE <<>>)

\* `resp and resp[0].startswith("ERROR:")`: resp[0] is the first character
RespIsError(resp) == resp # <<>> /\ IsPrefix(ErrorPrefix, <<resp[1]>>)

\* update(tablename, update_args, query_args); resp is what execute returns
UUpdate(resp) ==
    /\ upc = "call"
    /\ upc' = "done"
    /\ uout' =
         IF ~QueryGuard("update")
         THEN [NoResult EXCEPT !.raised = "No transaction in progress"]
         ELSE IF ~IsPairs(uargs)
         THEN [NoResult EXCEPT !.raised = "expected dict or list for update_args"]
         ELSE IF ~IsPairs(qargs) /\ qargs.type # "None"
         THEN [NoResult EXCEPT !.raised = "expected dict or list or None for query_args"]
         ELSE [raised |-> IF RespIsError(resp) THEN "DatabaseError" ELSE "none",
               sent |-> TRUE,
               query |-> UpdateQuery("t"),
               args |-> UpdateArgs,
               ret |-> resp]
    /\ UNCHANGED <<uargs, qargs>>
    /\ UNCHANGED nonUpdVars

NextUpd == \E resp \in Responses : UUpdate(resp)

ScopeUnused ==
    /\ InitScope
    /\ autocommit = FALSE

Init == InitScope /\ PoolUnused /\ MigUnused /\ WaitUnused /\ RegUnused /\ UpdUnused

\* one task and one HandlerDatabasePoolContext
Spec == Init /\ [][Next]_vars

InitSafePool == ScopeUnused /\ InitPool /\ MigUnused /\ WaitUnused /\ RegUnused /\ UpdUnused

\* tasks acquiring from one SafePool
SpecPool == InitSafePool /\ [][NextPool]_vars

InitMig == ScopeUnused /\ PoolUnused /\ InitDb /\ InitRun({1}) /\ WaitUnused /\ RegUnused /\ UpdUnused

\* one process running create_tables, again and again, against one database
SpecMig == InitMig /\ [][NextMig]_vars

InitMig2 == ScopeUnused /\ PoolUnused /\ InitDb /\ InitRun(Runners) /\ WaitUnused /\ RegUnused /\ UpdUnused

\* two processes running create_tables against one database, interleaved at
\* their awaits
SpecMig2 == InitMig2 /\ [][NextMig]_vars

InitWait == ScopeUnused /\ PoolUnused /\ InitDb /\ InitRun({1}) /\ InitWaiter /\ RegUnused /\ UpdUnused

InitRegistry == ScopeUnused /\ PoolUnused /\ MigUnused /\ WaitUnused /\ InitReg /\ UpdUnused

\* a scope that has been entered: __aenter__ has returned
ScopeEntered ==
    /\ connection = 1
    /\ transaction = 1
    /\ autocommit = FALSE
    /\ done = FALSE
    /\ callbacks = <<>>
    /\ borrowed = {1}
    /\ txState = [t \in TxIds |-> IF t = 1 THEN "started" ELSE "unused"]
    /\ pc = "body"
    /\ ctx = "out"
    /\ cnt = FALSE
    /\ pending = <<>>
    /\ exc = "none"
    /\ phase = "entered"
    /\ last = Call("enter", "ok")
    /\ snap = <<>>
    /\ fired = <<>>
    /\ begun = {1}
    /\ unresolved = FALSE
    /\ entryConn = 1
    /\ relLog = <<>>
    /\ exitRec = NoExit
    /\ owed = {}
    /\ deferred = {}

InitUpdate == (ScopeEntered \/ ScopeUnused) /\ PoolUnused /\ MigUnused /\ WaitUnused /\ RegUnused /\ InitUpd

\* update called with every combination of arguments, inside and outside a
\* transaction
SpecUpdate == InitUpdate /\ [][NextUpd]_vars

\* tasks calling prepare_database() and entering scopes in one process
SpecReg == InitRegistry /\ [][NextReg]_vars

\* create_tables in one process, wait_for_migration in another
SpecWait == InitWait /\ [][NextWait]_vars

\* the steps of a create_tables run that is under way
RunnerStep ==
    \E r \in Runners :
        \/ RRead(r)
        \/ RCreate(r)
        \/ RInsert(r)
        \/ \E ok \in BOOLEAN : RBootstrap(r, ok)
        \/ RVerify(r)
        \/ \E ok \in BOOLEAN : RLoop(r, ok)
        \/ RUpdate(r)

\* the steps of a wait_for_migration call that is under way
WaiterStep == WStart \/ WPoll \/ WSleep

\* the event loop goes on scheduling both coroutines: a statement that was
\* sent is answered and a sleep ends.  Starting a process again is up to its
\* operator and is not forced.
SpecWaitLive == SpecWait /\ WF_vars(RunnerStep) /\ WF_vars(WaiterStep)

\* ---------------------------------------------------------------- claims
InCommit == pc \in {"commit_cb", "in_cb", "commit_finally"}

\* the for loop of commit has ended without a callback raising
LoopDone == pc = "commit_cb" /\ pending = <<>>

\* the scope has no active transaction as its user sees it: never entered,
\* already exited, or committed without a new transaction
Inactive == {"fresh", "exited", "committed"}

\* C2: every successful entry is followed on exit by exactly one pool.release,
\* of the connection acquired at that entry, whatever the body did and also
\* when the rollback or commit made by the exit raised; nothing is released
\* between the entry and the exit.
C2_ReleasedExactlyOnce ==
    /\ last.op = "exit" =>
         /\ last.conn # None
         /\ last.released = <<last.conn>>
         /\ last.conn \notin borrowed
    /\ phase \in {"entered", "committing", "committed", "exiting"} =>
         /\ relLog = <<>>
         /\ entryConn = connection
         /\ entryConn \in borrowed

C2_Witness ==
    /\ last.op = "exit"
    /\ last.rec.op = "rollback"
    /\ last.rec.was = "started"
    /\ last.rec.now = "failed"

\* C3: an exit that finds a transaction rolls it back if the body raised or
\* the scope is not in autocommit mode, and commits it (running the commit
\* callbacks) if autocommit is on and the body did not raise; afterwards the
\* scope has no connection, no transaction and done = TRUE.
C3_ExitResolves ==
    /\ (last.op = "exit" /\ last.rec.hadTx) =>
         /\ last.rec.op = IF last.rec.err \/ ~autocommit THEN "rollback" ELSE "commit"
         /\ (last.rec.ok /\ last.rec.was = "started") =>
              last.rec.now = IF last.rec.op = "rollback" THEN "rolledback" ELSE "committed"
         /\ connection = None
         /\ transaction = None
         /\ done = TRUE
    /\ (ctx = "exit" /\ InCommit) =>
         /\ exitRec.op = "commit"
         /\ autocommit /\ ~exitRec.err
         /\ LoopDone => fired = snap

C3_Witness ==
    /\ last.op = "exit"
    /\ last.rec.op = "commit"
    /\ last.rec.now = "committed"
    /\ done

\* C4 (as claimed): when the connection is released, every transaction begun
\* on it by this entry has been committed or rolled back (a transaction object
\* has one state, so none is both).  Stated for the exits whose own rollback
\* or commit did not raise: what is left unresolved was left by the body.
C4_ResolvedBeforeRelease ==
    (last.op = "exit" /\ (last.rec.ok \/ last.rec.op = "none")) => ~last.unresolved

\* C5: a query method called on a scope that has not been entered, has exited
\* or has been committed without a new transaction raises "No transaction in
\* progress" and forwards nothing to a connection.
C5_QueryNeedsTransaction ==
    (last.op = "query" /\ phase \in Inactive) => last.res = "NoTransactionInProgress"

C5_Witness ==
    /\ last.op = "query"
    /\ phase = "committed"
    /\ last.res = "NoTransactionInProgress"

\* C6: commit called on a scope with no active transaction raises "No
\* transaction to commit": no driver commit, no callback, and the callback
\* list, the done flag and the connection stay as they were.
C6_CommitNeedsTransaction ==
    [][(phase \in Inactive /\ \E new, ok \in BOOLEAN : ACommit(new, ok)) =>
          /\ last' = Call("commit", "NoTransactionToCommit")
          /\ UNCHANGED <<callbacks, done, connection, transaction, txState>>
          /\ UNCHANGED <<pc, pending, fired, owed>>]_vars

C6_Witness ==
    /\ last = Call("commit", "NoTransactionToCommit")
    /\ phase = "exited"
    /\ callbacks # <<>>

\* C7 (as claimed): a commit whose driver commit succeeded has, when its loop
\* or its finally block is reached, invoked every callback that was registered
\* before it, once each and in registration order.
C7_AllCallbacksInvoked ==
    ((LoopDone \/ pc = "commit_finally") /\ exc # "driver") => fired = snap

\* C8 (as claimed): a commit call whose driver commit fails runs no callback,
\* and a commit call whose driver commit succeeds runs every callback that was
\* registered before it and has not been invoked since.  Stated for the
\* commits of a scope whose entry succeeded.
C8_RunsAfterNextSuccess ==
    /\ exc = "driver" => fired = <<>>
    /\ (phase = "committing" /\ pc \in {"commit_cb", "in_cb"}) => owed \subseteq Range(snap)

C1_NeverReturnsClosed ==
    \A t \in Tasks : tpc[t] = "holding" => (tcon[t] # None /\ ~tret[t])

\* a closed connection was discarded and the task then got an open one
C1_Witness ==
    \E t \in Tasks, c \in PoolConns :
        /\ tpc[t] = "holding"
        /\ ~tret[t]
        /\ c # tcon[t]
        /\ pclosed[c]
        /\ pholder[c] = 0

\* the scripts a run that read version v is to execute: v+1 .. Probe(v)
Expected(v) == [i \in 1..(Probe(v) - v) |-> v + i]

\* C10: on an existing database at version v a run executes scripts v+1, v+2,
\* ... in that order, each once, none numbered <= v and none after the first
\* number missing after v; when all succeed it has executed all of them up to
\* that gap and the persisted version is the last of them.
C10_MigrationOrder ==
    \A r \in Runners : \A v \in rv0[r] :
        /\ IsPrefix(rran[r], Expected(v))
        /\ (rpc[r] \in {"update", "done"} /\ rexc[r] = "none") =>
             /\ rran[r] = Expected(v)
             /\ rver[r] = Probe(v)
        /\ (rpc[r] = "done" /\ rexc[r] = "none") =>
             /\ dbVersion = Probe(v)
             /\ \A n \in (v + 1)..Probe(v) : n \in dbApplied

C10_Witness ==
    /\ rpc[1] = "done"
    /\ rexc[1] = "none"
    /\ rv0[1] = {1}
    /\ rran[1] = <<2, 3>>
    /\ dbVersion = 3

Last(s) == s[Len(s)]

\* C11: when script k fails, the scripts run are v+1..k in order and nothing
\* after k, and when the error reaches the caller the stored version is k-1:
\* the last script that succeeded, or v itself if the first one failed.
C11_FailureRecordsLast ==
    \A r \in Runners : \A v \in rv0[r] :
        rexc[r] = "ScriptError" =>
          /\ rran[r] # <<>>
          /\ IsPrefix(rran[r], Expected(v))
          /\ rver[r] = Last(rran[r]) - 1
          /\ rver[r] = v + Len(rran[r]) - 1
          /\ Last(rran[r]) \notin dbApplied
          /\ rpc[r] \in {"update", "done"}
          /\ rpc[r] = "done" => dbVersion = Last(rran[r]) - 1

\* the second script of a run failed and the error has been raised
C11_Witness ==
    /\ rpc[1] = "done"
    /\ rexc[1] = "ScriptError"
    /\ rv0[1] = {1}
    /\ rran[1] = <<2, 3>>
    /\ dbVersion = 2

\* a run that found no version table has returned without an error
FreshRunDone(r) ==
    /\ rpc[r] = "done"
    /\ rexc[r] = "none"
    /\ rv0[r] = {}
    /\ bootstrapFile

C13_WaiterPollsUntilEqual ==
    /\ wpc # "raised"
    /\ wpc = "returned" => (wsaw.table = "row" /\ wsaw.version = Probe(0))
    /\ wpc = "sleep" => (wsaw.table = "absent" \/ wsaw.version # Probe(0))

\* C14 (as claimed): no step of a create_tables run lowers the stored
\* version_number, whatever runs came before or run beside it, and the value is
\* 0 when the row is first inserted.
C14_VersionNeverLowered ==
    [][/\ (dbTable = "row" /\ dbTable' = "row") => dbVersion' >= dbVersion
       /\ (dbTable # "row" /\ dbTable' = "row") => dbVersion' = 0]_vars

\* C15 (as claimed): an entry that went into the recovery and has not ended
\* the process cleared the registry, closed the old pool, ran prepare_database
\* and acquired once more, in that order; when it is entered it holds a
\* connection of the pool it got from prepare_database, and that pool is the
\* one the registry holds.
C15_RecoveryOutcome ==
    [][\A t \in RegTasks :
         (gtrace[t] # <<>> /\ gpc[t] = "begin" /\ gpc'[t] = "entered") =>
           /\ gtrace[t] = <<"clear", "close", "prepare", "acquire">>
           /\ gconn'[t] = gtpool'[t]
           /\ gtpool'[t] = gpool']_vars

\* C16 (as claimed): when pool.acquire fails on a scope whose pool is not the
\* default pool, the call raises that same error at once: no recovery step is
\* taken, whatever the registry holds.
C16_NonDefaultPropagates ==
    \A t \in RegTasks :
        (gorig[t] # "none" /\ ~gdef[t]) =>
          /\ gpc[t] = "idle"
          /\ gtrace[t] = <<>>
          /\ gctx[t] = "scope"
          /\ graised[t] = gorig[t]

\* C17 (as claimed): at most one pool made by _prepare_global_pool is open at
\* any time.
C17_OneDefaultPool ==
    Cardinality({p \in gmade : gpoolSt[p] = "open"}) <= 1

\* the rendering the claim gives, by position: the i-th of n statements is
\* column, " = $", base + i, and sep stands between two statements
Rendered(pairs, base, sep) ==
    [p \in 1..(IF pairs = <<>> THEN 0 ELSE 4 * Len(pairs) - 1) |->
        IF p % 4 = 1 THEN pairs[(p + 3) \div 4][1]
        ELSE IF p % 4 = 2 THEN " = $"
        ELSE IF p % 4 = 3 THEN base + (p + 1) \div 4
        ELSE sep]

C19_UpdateRejects ==
    (upc = "done" /\ QueryGuard("update")) =>
      /\ (uargs.pairs = <<>> \/ ~IsPairs(uargs) \/ (qargs.type # "None" /\ ~IsPairs(qargs))) =>
           (uout.raised # "none" /\ ~uout.sent)
      /\ (uout.sent /\ IsPrefix(ErrorPrefix, uout.ret)) => uout.raised = "DatabaseError"

\* C20 (as claimed): after an entry that failed, by an acquisition error or
\* by a transaction that could not be begun, the scope holds no connection,
\* nothing remains borrowed from the pool for it, and so it can be entered
\* again.
C20_FailedEntryHoldsNothing ==
    (last.op = "enter" /\ last.res \in {"AcquireFailed", "StartFailed"}) =>
      /\ connection = None
      /\ transaction = None
      /\ borrowed = {}

\* C21 (as claimed): whenever a query method forwards to the connection, the
\* scope's current transaction has been started and is neither committed nor
\* rolled back; calls made from inside a commit callback included.
C21_ForwardedInsideTransaction ==
    (last.op = "query" /\ last.res = "forwarded") =>
      /\ transaction # None
      /\ txState[transaction] = "started"

\* C22 (as claimed): with a runner and a waiter on the same database and
\* scripts, when the waiter returns from its polling loop the schema is
\* complete: the bootstrap script has been applied, and every migration
\* script after the version the runner found, up to the number the waiter
\* expects, has been applied.
C22_WaiterReturnsOnCompleteSchema ==
    wpc = "returned" =>
      /\ dbBootstrapped
      /\ \A v \in rv0[1] : \A n \in (v + 1)..wexp : n \in dbApplied

\* C23 (as claimed): once a create_tables run has completed without raising,
\* a waiter that sees the same scripts and goes on polling eventually returns.
C23_WaiterEventuallyReturns ==
    (rpc[1] = "done" /\ rexc[1] = "none") ~> (wpc \in {"returned", "skipped"})

\* the connections the underlying pool counts as borrowed by task t
BorrowedBy(t) == {c \in PoolConns : pholder[c] = t}

\* C24: in the acquisition loop every closed connection taken from the
\* underlying pool is released back before the next attempt, so that between
\* attempts the caller has nothing borrowed, and when acquisition returns it
\* holds exactly one connection and none of the discarded ones is borrowed.
C24_DiscardsReleased ==
    \A t \in Tasks :
        /\ tpc[t] = "acquiring" => BorrowedBy(t) = {}
        /\ tpc[t] = "releasing" => (BorrowedBy(t) = {tcon[t]} /\ tcon[t] \in tdisc[t])
        /\ tpc[t] = "holding" =>
             /\ BorrowedBy(t) = {tcon[t]}
             /\ \A c \in tdisc[t] \ {tcon[t]} : pholder[c] # t

\* an acquisition that discarded a closed connection has returned another one,
\* and the discarded one is back in the pool
C24_Witness ==
    \E t \in Tasks :
        /\ tpc[t] = "holding"
        /\ \E c \in tdisc[t] : c # tcon[t] /\ pholder[c] = 0

====
